---- MODULE Spec2Model ----
(***************************************************************************)
(* The three-stage fetch pipeline of AlkotekaSpider (count probe ->        *)
(* listing -> detail), the item pipeline AlkotekaParserPipeline and the    *)
(* part of the Scrapy engine the spider relies on: a scheduler with a      *)
(* duplicate filter, a downloader limited by CONCURRENT_REQUESTS and a     *)
(* single-threaded reactor that runs one callback at a time.  A step of a  *)
(* callback is the arrival of a response together with the callback's run  *)
(* on it.                                                                  *)
(*                                                                         *)
(* A response of any status is handed to the callback of its request: the  *)
(* status test in parse_product_detail presumes it, and the other          *)
(* callbacks never look at the status.                                     *)
(*                                                                         *)
(* FnSpec applies the callbacks' pure parts (the listing's fan-out, the    *)
(* detail payload's merge with the request's meta, format_product_data) to *)
(* arguments drawn from bounded sets.                                      *)
(***************************************************************************)
EXTENDS Integers, Sequences, FiniteSets, TLC

\* ---------------------------------------------------------------- bounds
MaxTotal == 1          \* largest meta.total the server reports
MaxListing == 2         \* longest results array of a listing response
Max429 == 2             \* 429 responses the server gives in one run
MaxRetryAfter == 1      \* largest Retry-After header value (seconds)

\* ------------------------------------------------------- program constants
CONCURRENT_REQUESTS == 1
DEFAULT_RETRY_AFTER == 60

\* The seed categories (self.start_urls) and the product slugs of the API.
START_URLS == <<"c1", "c2">>
Categories == {START_URLS[i] : i \in 1..Len(START_URLS)}
Slugs == {"p1", "p2"}

\* ----------------------------------------------------------------- state
VARIABLES
    pending,          \* scheduler: requests waiting to be downloaded
    seen,             \* duplicate filter: urls of the filtered requests
    active,           \* downloader: requests awaiting their response
    sleeping,         \* <<>> or <<s>>: parse_product_detail inside time.sleep
    items,            \* AlkotekaParserPipeline.items
    processed_count,  \* AlkotekaSpider.processed_count
    errlog,           \* what errback has logged: url and failure kind
    \* history
    probe,            \* per category: <<>> or the body the count probe got
    listing,          \* per category: <<>> or what the listing request got:
                      \* the kind of body and its number of entries with a slug
    limited,          \* the urls that have been answered with a 429
    yielded,          \* every request a callback has yielded
    produced,         \* the records parse_product_detail has yielded
    handled,          \* the outcome of every detail response handled so far
    failures,         \* every transport failure: url and failure kind
    n429,             \* 429 responses given so far
    \* the callbacks' functions applied on their own
    call,             \* the function applied and its argument
    ret               \* whether it has returned, and what

vars == <<pending, seen, active, sleeping, items, processed_count,
          errlog, probe, listing, limited, yielded, produced, handled,
          failures, n429, call, ret>>

pvars == <<pending, seen, active, sleeping, items, processed_count, errlog,
           probe, listing, limited, yielded, produced, handled, failures,
           n429>>

\* -------------------------------------------------------------- requests
\* dont_filter and errback are the scrapy.Request arguments; cat is the
\* category the request descends from.
Req(st, cat, slug, per_page, product_url, dont_filter, eb) ==
    [stage |-> st, cat |-> cat, slug |-> slug, per_page |-> per_page,
     product_url |-> product_url, dont_filter |-> dont_filter, errback |-> eb]

\* start_requests of scrapy.Spider: one unfiltered request per start url.
SeedRequest(cat) == Req("seed", cat, "", 0, "", TRUE, FALSE)

\* The url a request is sent to.
URL(r) ==
    IF r.stage = "seed" THEN [path |-> "catalog", key |-> r.cat, per_page |-> 0]
    ELSE IF r.stage = "count" THEN [path |-> "product", key |-> r.cat, per_page |-> 0]
    ELSE IF r.stage = "listing" THEN [path |-> "product", key |-> r.cat, per_page |-> r.per_page]
    ELSE [path |-> "product/slug", key |-> r.slug, per_page |-> 0]

\* ------------------------------------------------------------- responses
Body(kind, has_total, total, results) ==
    [kind |-> kind, has_total |-> has_total, total |-> total, results |-> results]

Response(status, has_retry_after, retry_after, body) ==
    [status |-> status, has_retry_after |-> has_retry_after,
     retry_after |-> retry_after, body |-> body]

NoBody == Body("nonjson", FALSE, 0, <<>>)

\* A listing entry: slug "" stands for an absent or empty slug.
Entries == {[slug |-> "p1", product_url |-> "u1"],
            [slug |-> "p2", product_url |-> ""],
            [slug |-> "", product_url |-> "u3"]}

RECURSIVE SeqsUpTo(_, _)
SeqsUpTo(S, n) ==
    IF n = 0 THEN {<<>>}
    ELSE LET shorter == SeqsUpTo(S, n - 1)
         IN shorter \cup {Append(q, e) : q \in shorter, e \in S}

CountBodies ==
    {NoBody, Body("json", FALSE, 0, <<>>)}
    \cup {Body("json", TRUE, t, <<>>) : t \in 0..MaxTotal}

ListingBodies ==
    {NoBody} \cup {Body("json", FALSE, 0, q) : q \in SeqsUpTo(Entries, MaxListing)}

\* nokey: json without "results"; null: results null or empty; ok: a product
\* mapping; bad: a product on which format_product_data raises.
DetailBodies ==
    {NoBody} \cup {Body(k, FALSE, 0, <<>>) : k \in {"nokey", "null", "ok", "bad"}}

\* A rate-limited response carries an error body, never the data.
RateLimited ==
    {Response(429, FALSE, 0, b) : b \in {NoBody, Body("json", FALSE, 0, <<>>)}}
    \cup {Response(429, TRUE, n, NoBody) : n \in 0..MaxRetryAfter}

Responses(r) ==
    IF r.stage = "seed" THEN {Response(200, FALSE, 0, NoBody)}
    ELSE IF r.stage = "count" THEN {Response(200, FALSE, 0, b) : b \in CountBodies}
    ELSE IF r.stage = "listing" THEN {Response(200, FALSE, 0, b) : b \in ListingBodies}
    ELSE {Response(200, FALSE, 0, b) : b \in DetailBodies}

FailureKinds == {"TimeoutError", "TCPTimedOutError", "other"}

\* ---------------------------------------------------------------- engine
\* The scheduler's enqueue_request: a request is dropped when it is
\* filtered and its url has been seen; dont_filter bypasses the filter.
RECURSIVE Enqueue(_, _, _)
Enqueue(reqs, pend, sn) ==
    IF reqs = <<>> THEN [pending |-> pend, seen |-> sn]
    ELSE LET r == Head(reqs)
         IN IF r.dont_filter THEN Enqueue(Tail(reqs), pend \cup {r}, sn)
            ELSE IF URL(r) \in sn THEN Enqueue(Tail(reqs), pend, sn)
            ELSE Enqueue(Tail(reqs), pend \cup {r}, sn \cup {URL(r)})

SeqToSet(q) == {q[i] : i \in 1..Len(q)}

\* The number of entries of a results array that have a slug.
Slugged(results) == Cardinality({i \in 1..Len(results) : results[i].slug # ""})

Awake == sleeping = <<>>

\* ------------------------------------------------------------ downloader
\* Mutant: the downloader takes a second request while one is in flight.
Dispatch_two ==
    /\ UNCHANGED <<call, ret>>
    /\ Awake
    /\ Cardinality(active) < CONCURRENT_REQUESTS + 1
    /\ \E r \in pending :
        /\ pending' = pending \ {r}
        /\ active' = active \cup {r}
    /\ UNCHANGED <<seen, sleeping, items, processed_count, errlog, probe,
                   listing, limited, yielded, produced, handled, failures,
                   n429>>

\* The engine hands the downloader a request while fewer than
\* CONCURRENT_REQUESTS are in flight.
Dispatch ==
    /\ UNCHANGED <<call, ret>>
    /\ Awake
    /\ Cardinality(active) < CONCURRENT_REQUESTS
    /\ \E r \in pending :
        /\ pending' = pending \ {r}
        /\ active' = active \cup {r}
    /\ UNCHANGED <<seen, sleeping, items, processed_count, errlog, probe,
                   listing, limited, yielded, produced, handled, failures,
                   n429>>

\* What the server may answer to a request in flight.
Answers(r) ==
    Responses(r) \cup (IF r.stage # "seed" /\ n429 < Max429 THEN RateLimited ELSE {})

Count429(r, resp) ==
    /\ n429' = IF resp.status = 429 THEN n429 + 1 ELSE n429
    /\ limited' = IF resp.status = 429 THEN limited \cup {URL(r)} ELSE limited

\* A request in flight fails in transport and has an errback: errback logs
\* the request's url and the kind of the failure.
errback ==
    /\ UNCHANGED <<call, ret>>
    /\ Awake
    /\ \E r \in active : \E k \in FailureKinds :
        /\ r.errback
        /\ active' = active \ {r}
        /\ errlog' = errlog \cup {[url |-> URL(r), kind |-> k]}
        /\ failures' = failures \cup {[url |-> URL(r), kind |-> k]}
    /\ UNCHANGED <<pending, seen, sleeping, items, processed_count, probe,
                   listing, limited, yielded, produced, handled, n429>>

\* A request in flight fails in transport and has no errback: the spider is
\* not called.
DropFailure ==
    /\ UNCHANGED <<call, ret>>
    /\ Awake
    /\ \E r \in active : \E k \in FailureKinds :
        /\ ~r.errback
        /\ active' = active \ {r}
        /\ failures' = failures \cup {[url |-> URL(r), kind |-> k]}
    /\ UNCHANGED <<pending, seen, sleeping, items, processed_count, errlog,
                   probe, listing, limited, yielded, produced, handled, n429>>

\* -------------------------------------------------------------- callbacks
\* The requests a callback yields go through the scheduler in yield order.
Yield(reqs) ==
    LET e == Enqueue(reqs, pending, seen)
    IN /\ pending' = e.pending
       /\ seen' = e.seen
       /\ yielded' = yielded \cup SeqToSet(reqs)

\* parse: the category page; yields the count probe.
parse_yield(req) == <<Req("count", req.cat, "", 0, "", FALSE, FALSE)>>

parse ==
    /\ UNCHANGED <<call, ret>>
    /\ Awake
    /\ \E r \in active : \E resp \in Answers(r) :
        /\ r.stage = "seed"
        /\ active' = active \ {r}
        /\ Count429(r, resp)
        /\ Yield(parse_yield(r))
    /\ UNCHANGED <<sleeping, items, processed_count, errlog, probe, listing,
                   produced, handled, failures>>

\* meta.get('total', 0)
total_items(body) == IF body.has_total THEN body.total ELSE 0

\* Mutant: the zero test on the item count is missing.
parse_total_items_yield_nozero(req, resp) ==
    IF resp.body.kind = "nonjson" THEN <<>>
    ELSE <<Req("listing", req.cat, "", total_items(resp.body), "", FALSE, TRUE)>>

\* Mutant: the listing is requested with one entry more than the count.
parse_total_items_yield_perpage(req, resp) ==
    IF resp.body.kind = "nonjson" THEN <<>>
    ELSE IF total_items(resp.body) = 0 THEN <<>>
    ELSE <<Req("listing", req.cat, "", total_items(resp.body) + 1, "", FALSE, TRUE)>>

\* Mutant: a decoding failure falls back to a listing of one entry.
parse_total_items_yield_fallback(req, resp) ==
    IF resp.body.kind = "nonjson"
    THEN <<Req("listing", req.cat, "", 1, "", FALSE, TRUE)>>
    ELSE IF total_items(resp.body) = 0 THEN <<>>
    ELSE <<Req("listing", req.cat, "", total_items(resp.body), "", FALSE, TRUE)>>

\* parse_total_items: the count probe's response; yields the listing request.
parse_total_items_yield(req, resp) ==
    IF resp.body.kind = "nonjson" THEN <<>>
    ELSE IF total_items(resp.body) = 0 THEN <<>>
    ELSE <<Req("listing", req.cat, "", total_items(resp.body), "", FALSE, TRUE)>>

parse_total_items ==
    /\ UNCHANGED <<call, ret>>
    /\ Awake
    /\ \E r \in active : \E resp \in Answers(r) :
        /\ r.stage = "count"
        /\ active' = active \ {r}
        /\ Count429(r, resp)
        /\ Yield(parse_total_items_yield(r, resp))
        /\ probe' = [probe EXCEPT ![r.cat] = <<resp.body>>]
    /\ UNCHANGED <<sleeping, items, processed_count, errlog, listing,
                   produced, handled, failures>>

\* The detail requests of the entries that have a slug, in listing order.
RECURSIVE urls_to_parse(_, _)
urls_to_parse(req, products) ==
    IF products = <<>> THEN <<>>
    ELSE LET product == Head(products)
         IN IF product.slug = "" THEN urls_to_parse(req, Tail(products))
            ELSE <<Req("detail", req.cat, product.slug, 0, product.product_url,
                       FALSE, TRUE)>>
                 \o urls_to_parse(req, Tail(products))

\* Mutant: an entry without a slug aborts the batch.
parse_api_yield_abort(req, resp) ==
    IF resp.body.kind = "nonjson" THEN <<>>
    ELSE IF \E i \in 1..Len(resp.body.results) : resp.body.results[i].slug = ""
         THEN <<>>
    ELSE urls_to_parse(req, resp.body.results)

\* parse_api: the listing's response; yields one detail request per entry.
parse_api_yield(req, resp) ==
    IF resp.body.kind = "nonjson" THEN <<>>
    ELSE urls_to_parse(req, resp.body.results)

parse_api ==
    /\ UNCHANGED <<call, ret>>
    /\ Awake
    /\ \E r \in active : \E resp \in Answers(r) :
        /\ r.stage = "listing"
        /\ active' = active \ {r}
        /\ Count429(r, resp)
        /\ Yield(parse_api_yield(r, resp))
        /\ listing' = [listing EXCEPT ![r.cat] =
                        <<[kind |-> resp.body.kind,
                           slugged |-> Slugged(resp.body.results)]>>]
    /\ UNCHANGED <<sleeping, items, processed_count, errlog, probe,
                   produced, handled, failures>>

\* Mutant: another default when the header is absent.
retry_after_default(resp) ==
    IF resp.has_retry_after THEN resp.retry_after ELSE 30

\* int(response.headers.get('Retry-After', 60))
retry_after(resp) ==
    IF resp.has_retry_after THEN resp.retry_after ELSE DEFAULT_RETRY_AFTER

\* Mutant: the resubmitted request loses the product_url of its meta.
retry_request_nometa(req) ==
    [req EXCEPT !.dont_filter = TRUE, !.errback = FALSE, !.product_url = ""]

\* Mutant: the resubmitted request goes through the duplicate filter.
retry_request_filtered(req) == [req EXCEPT !.errback = FALSE]

\* The request parse_product_detail yields for a 429 response: the
\* response's url and meta, the same callback, dont_filter, no errback.
retry_request(req) == [req EXCEPT !.dont_filter = TRUE, !.errback = FALSE]

\* parse_product_detail, status 429: calls time.sleep(retry_after), which
\* blocks the process (callbacks, scheduler and downloader alike).
parse_product_detail_429 ==
    /\ UNCHANGED <<call, ret>>
    /\ Awake
    /\ \E r \in active : \E resp \in Answers(r) :
        /\ r.stage = "detail"
        /\ resp.status = 429
        /\ active' = active \ {r}
        /\ Count429(r, resp)
        /\ sleeping' = <<[req |-> r, resp |-> resp, secs |-> retry_after(resp)]>>
    /\ UNCHANGED <<pending, seen, items, processed_count, errlog, probe,
                   listing, yielded, produced, handled, failures>>

\* Mutant: a request that has been resubmitted is given up at its next 429.
retry_yield_once(req) ==
    IF req.dont_filter THEN <<>> ELSE <<retry_request(req)>>

\* What the 429 branch yields: the request again, whatever came before.
retry_yield(req) == <<retry_request(req)>>

\* time.sleep returns after secs seconds: the request is yielded again.
parse_product_detail_retry ==
    /\ UNCHANGED <<call, ret>>
    /\ ~Awake
    /\ sleeping' = <<>>
    /\ Yield(retry_yield(sleeping[1].req))
    /\ UNCHANGED <<active, items, processed_count, errlog, probe, listing,
                   limited, produced, handled, failures, n429>>

\* ------------------------------------------------------------ json values
\* A scalar of a decoded payload: an absent key, null, a string (a sequence
\* of symbols) or a number.  The Cyrillic literals of the source are written
\* in Latin letters: "Skidka", "sht", "Opisanie", "Artikul".
Absent == [t |-> "absent", s |-> <<>>, n |-> 0]
Null == [t |-> "null", s |-> <<>>, n |-> 0]
Str(s) == [t |-> "str", s |-> s, n |-> 0]
Num(n) == [t |-> "num", s |-> <<>>, n |-> n]

\* dict.get(key, default) and dict.get(key)
get(v, default) == IF v.t = "absent" THEN default ELSE v
get_none(v) == get(v, Null)

\* Python truth of a scalar.
truthy(v) == (v.t = "str" /\ v.s # <<>>) \/ (v.t = "num" /\ v.n # 0)

\* v1 or v2
or_else(v1, v2) == IF truthy(v1) THEN v1 ELSE v2

\* An array of a payload: an absent key, null or a list.
NoList == [t |-> "absent", l |-> <<>>]
NullList == [t |-> "null", l |-> <<>>]
List(l) == [t |-> "list", l |-> l]

\* Iterating product.get(key, []) raises TypeError on null.
iter_raises(a) == a.t = "null"
elements(a) == IF a.t = "list" THEN a.l ELSE <<>>

Digits == <<"0", "1", "2", "3", "4", "5", "6", "7", "8", "9">>
IsDigit(c) == \E i \in 1..10 : Digits[i] = c
DigitValue(c) == (CHOOSE i \in 1..10 : Digits[i] = c) - 1

\* int(text) and float(text) of a string of this alphabet succeed on a
\* non-empty run of digits.
is_number(s) == s # <<>> /\ \A i \in 1..Len(s) : IsDigit(s[i])

RECURSIVE number_of(_)
number_of(s) ==
    IF s = <<>> THEN 0
    ELSE 10 * number_of(SubSeq(s, 1, Len(s) - 1)) + DigitValue(s[Len(s)])

\* str(n)
RECURSIVE decimal(_)
decimal(n) ==
    IF n < 0 THEN <<"-">> \o decimal(0 - n)
    ELSE IF n < 10 THEN <<Digits[n + 1]>>
    ELSE decimal(n \div 10) \o <<Digits[(n % 10) + 1]>>

\* str(value) of a string or a number
str(v) == IF v.t = "num" THEN Str(decimal(v.n)) ELSE v

\* text.split(' ')[0]
RECURSIVE first_token(_)
first_token(s) ==
    IF s = <<>> \/ Head(s) = " " THEN <<>>
    ELSE <<Head(s)>> \o first_token(Tail(s))

\* ", ".join(parts)
RECURSIVE join(_)
join(parts) ==
    IF parts = <<>> THEN <<>>
    ELSE IF Len(parts) = 1 THEN parts[1].s
    ELSE parts[1].s \o <<",", " ">> \o join(Tail(parts))

\* ------------------------------------------------------ format_product_data
\* color_or_volume: fl.get('title') of the labels whose filter is cvet or obem
RECURSIVE color_or_volume(_)
color_or_volume(labels) ==
    IF labels = <<>> THEN <<>>
    ELSE LET fl == Head(labels)
         IN IF fl.filter = Str(<<"cvet">>) \/ fl.filter = Str(<<"obem">>)
            THEN <<get_none(fl.title)>> \o color_or_volume(Tail(labels))
            ELSE color_or_volume(Tail(labels))

all_str(parts) == \A i \in 1..Len(parts) : parts[i].t = "str"

\* title += ", " + ", ".join(color_or_volume) raises TypeError when a part
\* or the name is not a string.
title_raises(product) ==
    LET cov == color_or_volume(elements(product.filter_labels))
    IN cov # <<>> /\ (~all_str(cov) \/ get(product.name, Str(<<>>)).t # "str")

\* Mutant: every label contributes, whatever its filter.
title_of_every_label(product) ==
    LET labels == elements(product.filter_labels)
        cov == [i \in 1..Len(labels) |-> get_none(labels[i].title)]
        name == get(product.name, Str(<<>>))
    IN IF cov = <<>> THEN name
       ELSE Str(name.s \o <<",", " ">> \o join(cov))

\* title: the name, then ", " and the joined parts when there are any
title_of(product) ==
    LET cov == color_or_volume(elements(product.filter_labels))
        name == get(product.name, Str(<<>>))
    IN IF cov = <<>> THEN name
       ELSE Str(name.s \o <<",", " ">> \o join(cov))

\* float(raw), with the value used when it raises TypeError or ValueError
to_float(raw, fallback) ==
    IF raw.t = "num" THEN raw.n
    ELSE IF raw.t = "str" /\ is_number(raw.s) THEN number_of(raw.s)
    ELSE fallback

current_price(product) == to_float(get(product.price, Num(0)), 0)

original_price(product) ==
    LET prev_price_raw == get_none(product.prev_price)
    IN IF prev_price_raw.t = "null" THEN current_price(product)
       ELSE to_float(prev_price_raw, current_price(product))

\* int(round((original - current) / original * 100)): the nearest integer,
\* a tie going to the even one.
discount_percentage(original, current) ==
    LET num == (original - current) * 100
        q == num \div original
        r == num % original
    IN IF 2 * r < original THEN q
       ELSE IF 2 * r > original THEN q + 1
       ELSE IF q % 2 = 0 THEN q ELSE q + 1

NoSale == [text |-> <<>>, pct |-> 0]

\* sale_tag: "Skidka {discount_percentage}%" or ""
sale_tag(original, current) ==
    IF original > current /\ original > 0
    THEN [text |-> <<"Skidka ", "%">>, pct |-> discount_percentage(original, current)]
    ELSE NoSale

\* availability: an absent key, null or a mapping with stores
NoAvailability == [t |-> "absent", stores |-> NoList]
NullAvailability == [t |-> "null", stores |-> NoList]
Availability(stores) == [t |-> "map", stores |-> stores]

\* int(quantity.split(' ')[0]) of store.get('quantity', '0 sht'); ValueError
\* and AttributeError leave the count as it is.
store_quantity(store) ==
    LET quantity == get(store.quantity, Str(<<"0", " ", "sht">>))
    IN IF quantity.t = "str" /\ is_number(first_token(quantity.s))
       THEN number_of(first_token(quantity.s))
       ELSE 0

RECURSIVE stock_count(_)
stock_count(stores) ==
    IF stores = <<>> THEN 0
    ELSE stock_count(SubSeq(stores, 1, Len(stores) - 1))
         + store_quantity(stores[Len(stores)])

\* availability.get('stores', []) ; None.get raises AttributeError
stock_raises(product) == product.availability.t = "null"

\* Mutant: in_stock follows the summed quantity.
stock_of_counted(product) ==
    LET stores == elements(product.availability.stores)
    IN [in_stock |-> stock_count(stores) > 0, count |-> stock_count(stores)]

\* stock: in_stock when there is a store, count the sum over the stores
stock_of(product) ==
    LET stores == elements(product.availability.stores)
    IN IF stores # <<>>
       THEN [in_stock |-> TRUE, count |-> stock_count(stores)]
       ELSE [in_stock |-> FALSE, count |-> 0]

\* [tag.get('title', "") for tag in filter_labels if tag.get('title')]
RECURSIVE marketing_tags(_)
marketing_tags(labels) ==
    IF labels = <<>> THEN <<>>
    ELSE IF truthy(get_none(Head(labels).title))
         THEN <<Head(labels).title>> \o marketing_tags(Tail(labels))
         ELSE marketing_tags(Tail(labels))

\* the name of the first value of the first "brend" block that has values
RECURSIVE brand_of(_)
brand_of(blocks) ==
    IF blocks = <<>> THEN Str(<<>>)
    ELSE LET block == Head(blocks)
         IN IF block.code = Str(<<"brend">>) /\ elements(block.values) # <<>>
            THEN get(elements(block.values)[1].name, Str(<<>>))
            ELSE brand_of(Tail(blocks))

\* category: an absent key, null or a mapping with a name and a parent;
\* parent: the same with a name
NoCategory == [t |-> "absent", name |-> Absent, parent |-> [t |-> "absent", name |-> Absent]]
NullCategory == [t |-> "null", name |-> Absent, parent |-> [t |-> "absent", name |-> Absent]]
Category(name, parent) == [t |-> "map", name |-> name, parent |-> parent]

section_of(category) ==
    IF category.t # "map" THEN <<>>
    ELSE (IF category.parent.t = "map" /\ truthy(get_none(category.parent.name))
          THEN <<category.parent.name>> ELSE <<>>)
         \o (IF truthy(get_none(category.name)) THEN <<category.name>> ELSE <<>>)

\* re.sub(r'<br\s*/?>', '\n', html), re.sub(r'<[^>]+>', '', html), unescape
RECURSIVE strip_html(_)
strip_html(html) ==
    IF html = <<>> THEN <<>>
    ELSE LET c == Head(html)
         IN (IF c \in {"<br>", "<br/>"} THEN <<"\n">>
             ELSE IF c \in {"<p>", "</p>"} THEN <<>>
             ELSE IF c = "&amp;" THEN <<"&">>
             ELSE <<c>>)
            \o strip_html(Tail(html))

IsSpace(c) == c \in {" ", "\n"}

\* text.strip()
RECURSIVE strip(_)
strip(text) ==
    IF text = <<>> THEN <<>>
    ELSE IF IsSpace(Head(text)) THEN strip(Tail(text))
    ELSE IF IsSpace(text[Len(text)]) THEN strip(SubSeq(text, 1, Len(text) - 1))
    ELSE text

\* the first text block titled "Opisanie"; re.sub raises TypeError on a
\* content that is not a string
RECURSIVE description_block(_)
description_block(blocks) ==
    IF blocks = <<>> THEN <<>>
    ELSE IF Head(blocks).title = Str(<<"Opisanie">>) THEN <<Head(blocks)>>
    ELSE description_block(Tail(blocks))

description_raises(product) ==
    LET found == description_block(elements(product.text_blocks))
    IN found # <<>> /\ get(found[1].content, Str(<<>>)).t # "str"

description_of(product) ==
    LET found == description_block(elements(product.text_blocks))
    IN IF found = <<>> THEN Str(<<>>)
       ELSE Str(strip(strip_html(get(found[1].content, Str(<<>>)).s)))

\* metadata[key] = value on a mapping kept as a sequence of entries
RECURSIVE dict_set(_, _, _)
dict_set(d, key, value) ==
    IF d = <<>> THEN <<[key |-> key, value |-> value]>>
    ELSE IF Head(d).key = key THEN <<[key |-> key, value |-> value]>> \o Tail(d)
    ELSE <<Head(d)>> \o dict_set(Tail(d), key, value)

RECURSIVE metadata_labels(_, _)
metadata_labels(d, labels) ==
    IF labels = <<>> THEN d
    ELSE LET fl == Head(labels)
             key == get_none(fl.title)
         IN IF truthy(key)
            THEN metadata_labels(
                     dict_set(d, or_else(get_none(fl.filter), key),
                              str(or_else(get_none(fl.value), get_none(fl.title)))),
                     Tail(labels))
            ELSE metadata_labels(d, Tail(labels))

metadata_of(product) ==
    LET labelled == metadata_labels(
                        <<[key |-> Str(<<"description">>), value |-> description_of(product)]>>,
                        elements(product.filter_labels))
    IN IF truthy(get_none(product.vendor_code))
       THEN dict_set(labelled, Str(<<"Artikul">>), str(product.vendor_code))
       ELSE labelled

\* What the caller of format_product_data sees when it raises.
Raised ==
    [raised |-> TRUE, timestamp |-> 0, RPC |-> Null, url |-> Null, title |-> Null,
     marketing_tags |-> <<>>, brand |-> Null, section |-> <<>>,
     price_data |-> [current |-> 0, original |-> 0, sale_tag |-> NoSale],
     stock |-> [in_stock |-> FALSE, count |-> 0],
     assets |-> [main_image |-> Null, set_images |-> <<>>, view360 |-> <<>>, video |-> <<>>],
     metadata |-> <<>>, variants |-> 0]

format_product_data_raises(product) ==
    \/ iter_raises(product.filter_labels)
    \/ title_raises(product)
    \/ stock_raises(product)
    \/ iter_raises(product.description_blocks)
    \/ iter_raises(product.text_blocks)
    \/ description_raises(product)

\* format_product_data(product) at time now
format_product_data(product, now) ==
    IF format_product_data_raises(product) THEN Raised
    ELSE [raised |-> FALSE,
          timestamp |-> now,
          RPC |-> get_none(product.uuid),
          url |-> get_none(product.product_url),
          title |-> title_of(product),
          marketing_tags |-> marketing_tags(elements(product.filter_labels)),
          brand |-> brand_of(elements(product.description_blocks)),
          section |-> section_of(product.category),
          price_data |-> [current |-> current_price(product),
                          original |-> original_price(product),
                          sale_tag |-> sale_tag(original_price(product),
                                                current_price(product))],
          stock |-> stock_of(product),
          assets |-> [main_image |-> get_none(product.image_url),
                      set_images |-> IF truthy(get_none(product.image_url))
                                     THEN <<product.image_url>> ELSE <<>>,
                      view360 |-> <<>>,
                      video |-> <<>>],
          metadata |-> metadata_of(product),
          variants |-> 1]

\* The empty mapping.
EmptyProduct ==
    [uuid |-> Absent, name |-> Absent, product_url |-> Absent, price |-> Absent,
     prev_price |-> Absent, filter_labels |-> NoList,
     availability |-> NoAvailability, description_blocks |-> NoList,
     category |-> NoCategory, image_url |-> Absent, text_blocks |-> NoList,
     vendor_code |-> Absent]

\* parse_product_detail on a payload with a product: product['product_url']
\* is set to response.meta.get('product_url', ''), then the product is
\* formatted.
detail_record(product, meta_url, now) ==
    format_product_data(
        [product EXCEPT !.product_url = get(meta_url, Str(<<>>))], now)

\* A string of the pipeline as a payload string, and back.
text(x) == IF x = "" THEN Str(<<>>) ELSE Str(<<x>>)
untext(v) == IF v.t = "str" /\ v.s # <<>> THEN v.s[1] ELSE ""

\* The record parse_product_detail yields for the product the server keeps
\* under the request's slug.
detail_item(req) ==
    LET rec == detail_record([EmptyProduct EXCEPT !.uuid = text(req.slug)],
                             text(req.product_url), 0)
    IN [cat |-> req.cat, RPC |-> untext(rec.RPC), url |-> untext(rec.url)]

\* Mutant: the pipeline stores the record twice.
process_item_twice(its, item) == Append(Append(its, item), item)

\* AlkotekaParserPipeline.process_item
process_item(its, item) == Append(its, item)

\* Mutant: the record is yielded and the counter is left as it is.
parse_product_detail_item_uncounted ==
    /\ UNCHANGED <<call, ret>>
    /\ Awake
    /\ \E r \in active : \E resp \in Answers(r) :
        /\ r.stage = "detail"
        /\ resp.status # 429
        /\ resp.body.kind = "ok"
        /\ active' = active \ {r}
        /\ Count429(r, resp)
        /\ items' = process_item(items, detail_item(r))
        /\ produced' = Append(produced, detail_item(r))
        /\ processed_count' = processed_count
        /\ handled' = handled \cup {[cat |-> r.cat, url |-> URL(r), kind |-> "ok"]}
    /\ UNCHANGED <<pending, seen, sleeping, errlog, probe, listing, yielded,
                   failures>>

\* parse_product_detail, any other status, a product in the payload: one
\* record goes to the pipeline, then the counter is incremented.
parse_product_detail_item ==
    /\ UNCHANGED <<call, ret>>
    /\ Awake
    /\ \E r \in active : \E resp \in Answers(r) :
        /\ r.stage = "detail"
        /\ resp.status # 429
        /\ resp.body.kind = "ok"
        /\ active' = active \ {r}
        /\ Count429(r, resp)
        /\ items' = process_item(items, detail_item(r))
        /\ produced' = Append(produced, detail_item(r))
        /\ processed_count' = processed_count + 1
        /\ handled' = handled \cup {[cat |-> r.cat, url |-> URL(r), kind |-> "ok"]}
    /\ UNCHANGED <<pending, seen, sleeping, errlog, probe, listing, yielded,
                   failures>>

\* Mutant: the return after the empty-payload warning is missing and a
\* record is emitted for the empty payload.
parse_product_detail_empty_emits ==
    /\ UNCHANGED <<call, ret>>
    /\ Awake
    /\ \E r \in active : \E resp \in Answers(r) :
        /\ r.stage = "detail"
        /\ resp.status # 429
        /\ resp.body.kind # "ok"
        /\ active' = active \ {r}
        /\ Count429(r, resp)
        /\ items' = IF resp.body.kind = "null"
                    THEN process_item(items, detail_item(r)) ELSE items
        /\ produced' = IF resp.body.kind = "null"
                       THEN Append(produced, detail_item(r)) ELSE produced
        /\ handled' = handled \cup {[cat |-> r.cat, url |-> URL(r),
                                      kind |-> resp.body.kind]}
    /\ UNCHANGED <<pending, seen, sleeping, processed_count, errlog, probe,
                   listing, yielded, failures>>

\* parse_product_detail, any other status, no usable product: nothing is
\* yielded (empty results are logged, exceptions are caught and logged).
parse_product_detail_empty ==
    /\ UNCHANGED <<call, ret>>
    /\ Awake
    /\ \E r \in active : \E resp \in Answers(r) :
        /\ r.stage = "detail"
        /\ resp.status # 429
        /\ resp.body.kind # "ok"
        /\ active' = active \ {r}
        /\ Count429(r, resp)
        /\ handled' = handled \cup {[cat |-> r.cat, url |-> URL(r),
                                      kind |-> resp.body.kind]}
    /\ UNCHANGED <<pending, seen, sleeping, items, processed_count, errlog,
                   probe, listing, yielded, produced, failures>>

\* The state after the spider and the item pipeline are constructed.
PipelineInit ==
    /\ pending = {SeedRequest(c) : c \in Categories}
    /\ seen = {}
    /\ active = {}
    /\ sleeping = <<>>
    /\ items = <<>>
    /\ processed_count = 0
    /\ errlog = {}
    /\ probe = [c \in Categories |-> <<>>]
    /\ listing = [c \in Categories |-> <<>>]
    /\ limited = {}
    /\ yielded = {}
    /\ produced = <<>>
    /\ handled = {}
    /\ failures = {}
    /\ n429 = 0

\* No function is applied on its own during a run of the spider.
NoCall ==
    [fn |-> "none", req |-> SeedRequest(START_URLS[1]),
     resp |-> Response(200, FALSE, 0, NoBody), product |-> EmptyProduct,
     meta_url |-> Null, now |-> 0]
NoReturn == [done |-> FALSE, reqs |-> <<>>, rec |-> Raised]

Init ==
    /\ PipelineInit
    /\ call = NoCall
    /\ ret = NoReturn

Next ==
    \/ Dispatch
    \/ errback
    \/ DropFailure
    \/ parse
    \/ parse_total_items
    \/ parse_api
    \/ parse_product_detail_429
    \/ parse_product_detail_retry
    \/ parse_product_detail_item
    \/ parse_product_detail_empty

Spec == Init /\ [][Next]_vars

\* The engine keeps working while a request is pending or in flight and
\* time.sleep returns; the server gives at most Max429 rate-limited answers.
LiveSpec == Spec /\ WF_vars(Next)

Quiescent == pending = {} /\ active = {} /\ Awake

\* ======================================================= functions alone
\* Longest filter_labels and stores arrays, largest price.
MaxLabels == 2
MaxStores == 2
MaxPrice == 8

\* int(time.time())
Clock == {1, 2}

Label(filter, title, value) == [filter |-> filter, title |-> title, value |-> value]

Labels ==
    {Label(Str(<<"cvet">>), Str(<<"Red">>), Absent),
     Label(Str(<<"obem">>), Str(<<"0.5L">>), Str(<<"0.5">>)),
     Label(Str(<<"strana">>), Str(<<"France">>), Num(7)),
     Label(Absent, Str(<<"New">>), Absent),
     Label(Str(<<"cvet">>), Absent, Absent),
     Label(Str(<<"strana">>), Null, Str(<<"x">>))}

Names == {Str(<<"Vodka">>), Str(<<>>), Absent, Null}

Quantities ==
    {Str(<<"2", " ", "sht">>), Str(<<"1", "2", " ", "sht">>), Str(<<"sht">>),
     Str(<<"2", "sht">>), Str(<<" ", "2">>), Str(<<"2">>), Str(<<>>),
     Null, Num(3), Absent}

Stores == {[quantity |-> q, title |-> Str(<<"Store">>)] : q \in Quantities}

Prices ==
    {Num(n) : n \in -1..MaxPrice}
    \cup {Str(<<"1", "2">>), Str(<<"x">>), Null, Absent}

\* A payload product with every field the formatter reads.
FullProduct ==
    [uuid |-> Str(<<"id1">>),
     name |-> Str(<<"Vodka">>),
     product_url |-> Str(<<"own">>),
     price |-> Num(5),
     prev_price |-> Num(8),
     filter_labels |-> List(<<Label(Str(<<"cvet">>), Str(<<"Red">>), Absent),
                              Label(Str(<<"strana">>), Str(<<"France">>), Num(7))>>),
     availability |-> Availability(List(<<[quantity |-> Str(<<"2", " ", "sht">>),
                                          title |-> Str(<<"Store">>)]>>)),
     description_blocks |-> List(<<[code |-> Str(<<"brend">>),
                                    values |-> List(<<[name |-> Str(<<"Brand">>)]>>)]>>),
     category |-> Category(Str(<<"Wine">>), [t |-> "map", name |-> Str(<<"Drinks">>)]),
     image_url |-> Str(<<"img">>),
     text_blocks |-> List(<<[title |-> Str(<<"Opisanie">>),
                             content |-> Str(<<"<p>", "Good", "<br>", "wine",
                                               "&amp;", "</p>", " ">>)]>>),
     vendor_code |-> Num(123)]

\* The full and the empty product, and the full one with a key absent,
\* null or empty.
SparseProducts ==
    {EmptyProduct, FullProduct}
    \cup {[FullProduct EXCEPT ![f] = v] :
            f \in {"uuid", "name", "product_url", "price", "prev_price",
                   "image_url", "vendor_code"},
            v \in {Absent, Null, Str(<<>>)}}
    \cup {[FullProduct EXCEPT ![f] = v] :
            f \in {"filter_labels", "description_blocks", "text_blocks"},
            v \in {NoList, NullList, List(<<>>)}}
    \cup {[FullProduct EXCEPT !.availability = v] :
            v \in {NoAvailability, NullAvailability, Availability(NoList),
                   Availability(NullList)}}
    \cup {[FullProduct EXCEPT !.category = v] :
            v \in {NoCategory, NullCategory,
                   Category(Null, [t |-> "null", name |-> Absent]),
                   Category(Str(<<"Wine">>), [t |-> "absent", name |-> Absent])}}
    \cup {[FullProduct EXCEPT !.text_blocks =
                List(<<[title |-> Str(<<"Opisanie">>), content |-> v]>>)] :
            v \in {Absent, Null}}
    \cup {[FullProduct EXCEPT !.description_blocks =
                List(<<[code |-> Str(<<"brend">>), values |-> v]>>)] :
            v \in {NoList, NullList, List(<<[name |-> Absent]>>)}}

TitleProducts ==
    {[FullProduct EXCEPT !.name = n, !.filter_labels = ll] :
        n \in Names,
        ll \in {List(l) : l \in SeqsUpTo(Labels, MaxLabels)}}

PriceProducts ==
    {[FullProduct EXCEPT !.price = c, !.prev_price = o] :
        c \in Prices, o \in Prices}

StockProducts ==
    {[FullProduct EXCEPT !.availability = Availability(List(l))] :
        l \in SeqsUpTo(Stores, MaxStores)}

FnCall(fn, req, resp, product, meta_url, now) ==
    [fn |-> fn, req |-> req, resp |-> resp, product |-> product,
     meta_url |-> meta_url, now |-> now]

\* parse_api is applied to every listing body.
ParseApiCalls ==
    {FnCall("parse_api", Req("listing", c, "", 1, "", FALSE, TRUE),
            Response(200, FALSE, 0, b), EmptyProduct, Null, 0) :
        c \in Categories, b \in ListingBodies}

\* parse_product_detail is applied to a payload's product, with or without
\* a product_url of its own, and the product_url of the request's meta,
\* which parse_api has put there.
ParseProductDetailCalls ==
    {FnCall("parse_product_detail", NoCall.req, NoCall.resp,
            [p EXCEPT !.product_url = own], meta_url, now) :
        p \in {EmptyProduct, FullProduct},
        own \in {Absent, Null, Str(<<>>), Str(<<"own">>)},
        meta_url \in {Null, Str(<<>>), Str(<<"u1">>)},
        now \in Clock}

FormatProductDataCalls ==
    {FnCall("format_product_data", NoCall.req, NoCall.resp, p, Null, now) :
        p \in SparseProducts \cup TitleProducts \cup PriceProducts
              \cup StockProducts,
        now \in Clock}

call_parse_api ==
    /\ call.fn = "parse_api"
    /\ ~ret.done
    /\ ret' = [done |-> TRUE, reqs |-> parse_api_yield(call.req, call.resp),
               rec |-> Raised]
    /\ UNCHANGED <<pvars, call>>

call_parse_product_detail ==
    /\ call.fn = "parse_product_detail"
    /\ ~ret.done
    /\ ret' = [done |-> TRUE, reqs |-> <<>>,
               rec |-> detail_record(call.product, call.meta_url, call.now)]
    /\ UNCHANGED <<pvars, call>>

call_format_product_data ==
    /\ call.fn = "format_product_data"
    /\ ~ret.done
    /\ ret' = [done |-> TRUE, reqs |-> <<>>,
               rec |-> format_product_data(call.product, call.now)]
    /\ UNCHANGED <<pvars, call>>

FnInit ==
    /\ PipelineInit
    /\ call \in ParseApiCalls \cup ParseProductDetailCalls
                \cup FormatProductDataCalls
    /\ ret = NoReturn

FnNext ==
    \/ call_parse_api
    \/ call_parse_product_detail
    \/ call_format_product_data

FnSpec == FnInit /\ [][FnNext]_vars

\* ================================================================ claims
ItemsOf(c) == SelectSeq(items, LAMBDA it : it.cat = c)

\* The detail responses with a product that were handled for category c.
Succeeded(c) == {h \in handled : h.cat = c /\ h.kind = "ok"}

\* The requests that are still to be answered.
Waiting == pending \cup active \cup {sleeping[i].req : i \in 1..Len(sleeping)}

\* C1: every record the detail handler produces is offered to the sink
\* exactly once and the sink holds the records in the order their detail
\* responses were handled; no record is in the sink twice; a category with a
\* positive count whose listing has k entries with a slug, the detail fetch
\* of each of them having succeeded, has exactly k records in the sink.
C1_SinkExactlyOnce ==
    /\ items = produced
    /\ \A i, j \in 1..Len(items) : i # j => items[i] # items[j]
    /\ \A c \in Categories :
        /\ Len(ItemsOf(c)) = Cardinality(Succeeded(c))
        /\ (/\ probe[c] # <<>>
            /\ listing[c] # <<>>
            /\ listing[c][1].kind = "json"
            /\ Cardinality(Succeeded(c)) = listing[c][1].slugged)
           => Len(ItemsOf(c)) = listing[c][1].slugged

\* A category whose listing had two entries with a slug has both records.
C1_Witness ==
    \E c \in Categories :
        /\ listing[c] # <<>>
        /\ listing[c][1].slugged = 2
        /\ Cardinality(Succeeded(c)) = 2
        /\ Len(ItemsOf(c)) = 2

\* The count probe of c was answered with json whose item count is absent
\* or zero.
CountIsZero(c) ==
    /\ probe[c] # <<>>
    /\ probe[c][1].kind = "json"
    /\ ~probe[c][1].has_total \/ probe[c][1].total = 0

\* C2: when the count probe of a category reports an absent or zero item
\* count, no listing and no detail request is ever issued for the category,
\* the sink holds no record of it and nothing of it is left to do (Empty).
C2_ZeroCountIsEmpty ==
    \A c \in Categories :
        CountIsZero(c) =>
            /\ \A r \in yielded : r.cat = c => r.stage = "count"
            /\ \A r \in Waiting : r.cat # c
            /\ ItemsOf(c) = <<>>

\* One category is Empty after a zero count while the other one has
\* delivered a record.
C2_Witness ==
    \E c, d \in Categories :
        /\ CountIsZero(c)
        /\ probe[c][1].has_total
        /\ Len(ItemsOf(d)) > 0

\* C3: per category the stages are ordered and never go back: a listing
\* request exists only after the count probe's response was handled and its
\* per_page is the probed count; a detail request exists only after the
\* listing's response was handled; once the count probe (the listing) has
\* been handled no seed or count (or listing) request of the category is
\* issued again.
C3_StagesOrdered ==
    /\ \A r \in yielded \cup Waiting :
        /\ r.stage = "listing" =>
            /\ probe[r.cat] # <<>>
            /\ probe[r.cat][1].kind = "json"
            /\ probe[r.cat][1].has_total
            /\ r.per_page = probe[r.cat][1].total
            /\ r.per_page > 0
        /\ r.stage = "detail" =>
            /\ listing[r.cat] # <<>>
            /\ listing[r.cat][1].kind = "json"
            /\ probe[r.cat] # <<>>
    /\ \A c \in Categories :
        /\ probe[c] # <<>> =>
            \A r \in Waiting : r.cat = c => r.stage \in {"listing", "detail"}
        /\ listing[c] # <<>> =>
            \A r \in Waiting : r.cat = c => r.stage = "detail"

\* A detail request is waiting in a category that went through the probe
\* (a positive count) and the listing.
C3_Witness ==
    \E r \in Waiting :
        /\ r.stage = "detail"
        /\ probe[r.cat] # <<>>
        /\ probe[r.cat][1].total > 0
        /\ listing[r.cat] # <<>>

InProgress(u) == \E r \in Waiting : URL(r) = u

\* The number of records in the sink for the product with this slug.
RecordsOf(slug) == Cardinality({i \in 1..Len(items) : items[i].RPC = slug})

HasOutcome(u) ==
    \/ \E h \in handled : h.url = u
    \/ \E f \in failures : f.url = u

\* C4: a detail fetch answered with 429 and then, on resubmission, with a
\* product yields exactly one record: the 429 response emits nothing, the
\* entry is not lost (it stays in progress until it has an outcome) and the
\* sink never holds two records of it.
C4_RateLimitRecovery ==
    /\ [](\A u \in limited :
            u.path = "product/slug" =>
                /\ RecordsOf(u.key) <= 1
                /\ InProgress(u) => RecordsOf(u.key) = 0
                /\ ~InProgress(u) => HasOutcome(u)
                /\ RecordsOf(u.key) = 1 <=>
                       \E h \in handled : h.url = u /\ h.kind = "ok")
    /\ [][limited' # limited => items' = items]_vars

\* A rate-limited entry whose resubmission succeeded has its record.
C4_Witness ==
    \E u \in limited :
        /\ u.path = "product/slug"
        /\ \E h \in handled : h.url = u /\ h.kind = "ok"
        /\ RecordsOf(u.key) = 1

\* C5 (as claimed): whatever the stage of the request, a 429 response leads
\* to the resubmission of the same request, so the request is still to be
\* answered after the response has been handled.
C5_EveryStageResubmits ==
    [][\A u \in limited' \ limited : \E r \in Waiting' : URL(r) = u]_vars

\* C6: whenever the process waits for a rate limit, the wait is the 429
\* response's Retry-After value, or 60 without the header; no request is
\* dispatched during the wait; a request is resubmitted (dont_filter) only
\* at the end of a wait, to the url of the rate-limited request, and it
\* enters the scheduler although the duplicate filter has seen that url.
C6_RateLimitWait ==
    /\ [](~Awake =>
            /\ sleeping[1].resp.status = 429
            /\ sleeping[1].secs =
                   IF sleeping[1].resp.has_retry_after
                   THEN sleeping[1].resp.retry_after ELSE 60)
    /\ [][~Awake => active' = active]_vars
    /\ [][\A r \in pending' \ pending :
            r.dont_filter =>
                /\ ~Awake
                /\ Awake'
                /\ URL(r) = URL(sleeping[1].req)
                /\ URL(r) \in seen']_vars
    /\ [][(~Awake /\ Awake') =>
            \E r \in pending' \ pending : URL(r) = URL(sleeping[1].req)]_vars

\* A request resubmitted after a wait is in the scheduler while the
\* duplicate filter holds its url.
C6_Witness ==
    \E r \in pending :
        /\ r.stage = "detail"
        /\ r.dont_filter
        /\ URL(r) \in seen
        /\ URL(r) \in limited

\* C7: at most one request is in flight, and a request is dispatched only
\* when none is in flight.
C7_OneInFlight ==
    /\ [](Cardinality(active) <= 1)
    /\ [][active' \ active # {} => active = {}]_vars

\* A detail request is in flight while a sibling and a resubmitted request
\* wait in the scheduler.
C7_Witness ==
    \E r \in active :
        /\ r.stage = "detail"
        /\ \E q \in pending : q.stage = "detail" /\ q.cat = r.cat
        /\ Cardinality(pending) >= 2

\* C8: a malformed or empty detail payload ends its own entry only: no
\* record of it reaches the sink, handling it changes neither the scheduler
\* nor the sink, every detail response with a product has its record, and
\* when the run is over every detail request a listing yielded has been
\* fetched.
C8_MalformedDetailIsLocal ==
    /\ [](\A h \in handled :
            /\ h.kind # "ok" => RecordsOf(h.url.key) = 0
            /\ h.kind = "ok" => RecordsOf(h.url.key) = 1)
    /\ [][\A h \in handled' \ handled :
            h.kind # "ok" =>
                /\ items' = items
                /\ pending' = pending
                /\ seen' = seen
                /\ sleeping' = sleeping]_vars
    /\ [](Quiescent =>
            \A r \in yielded : r.stage = "detail" => HasOutcome(URL(r)))

\* In one listing of two entries one payload was malformed and the sibling
\* has its record.
C8_Witness ==
    \E c \in Categories : \E h, g \in handled :
        /\ listing[c] # <<>>
        /\ listing[c][1].slugged = 2
        /\ h.cat = c /\ h.kind \in {"nonjson", "nokey", "null", "bad"}
        /\ g.cat = c /\ g.kind = "ok"
        /\ RecordsOf(g.url.key) = 1

\* The count probe or the listing of c was answered with a body that is
\* not json.
DecodeFailed(c) ==
    \/ probe[c] # <<>> /\ probe[c][1].kind = "nonjson"
    \/ listing[c] # <<>> /\ listing[c][1].kind = "nonjson"

\* C9: a body that is not json at the count probe or at the listing
\* abandons that category only: nothing of it is left to do, no request of
\* a later stage was issued for it and no record of it is in the sink; the
\* step that handles the body leaves the scheduler, the sink and the
\* requests of the other categories as they are.
C9_DecodeFailureIsLocal ==
    /\ [](\A c \in Categories :
            DecodeFailed(c) =>
                /\ \A r \in Waiting : r.cat # c
                /\ \A r \in yielded : r.cat = c => r.stage \in {"count", "listing"}
                /\ probe[c][1].kind = "nonjson" =>
                       \A r \in yielded : r.cat = c => r.stage = "count"
                /\ ItemsOf(c) = <<>>)
    /\ [][\A c \in Categories :
            (~DecodeFailed(c) /\ DecodeFailed(c)') =>
                /\ pending' = pending
                /\ items' = items
                /\ sleeping' = sleeping
                /\ \A r \in active : r.cat # c => r \in active']_vars

\* One category was abandoned at a decoding failure and the run ended with
\* a record of the other category in the sink.
C9_Witness ==
    \E c, d \in Categories :
        /\ DecodeFailed(c)
        /\ Len(ItemsOf(d)) > 0
        /\ Quiescent

\* C10 (as claimed): every transport failure of a request of the pipeline
\* (count probe, listing, detail, resubmitted detail) is reported to errback
\* with the request's url and the kind of the failure.
C10_EveryFailureReported ==
    \A f \in failures : f.url.path # "catalog" => f \in errlog

\* The function applied on its own has returned.
Returned(fn) == call.fn = fn /\ ret.done

\* The entries of a results array that have a slug.
WithSlug(results) == SelectSeq(results, LAMBDA e : e.slug # "")

Present(v) == v.t = "str" /\ v.s # <<>>

\* C12: the url of the record of a successful detail fetch is the detail
\* payload's own product_url when the payload has one, and the
\* listing-supplied url (the request's meta) only when it has none.
C12_OwnUrlIsAuthoritative ==
    (Returned("parse_product_detail") /\ ~ret.rec.raised) =>
        ret.rec.url = IF Present(call.product.product_url)
                      THEN call.product.product_url
                      ELSE get(call.meta_url, Str(<<>>))

AllStr(q) == \A i \in 1..Len(q) : q[i].t = "str"

\* Every field of a record has its documented type.
WellTyped(rec) ==
    /\ rec.timestamp \in Int
    /\ rec.url.t = "str"
    /\ rec.title.t = "str"
    /\ AllStr(rec.marketing_tags)
    /\ rec.brand.t = "str"
    /\ AllStr(rec.section)
    /\ rec.price_data.current \in Int
    /\ rec.price_data.original \in Int
    /\ rec.stock.in_stock \in BOOLEAN
    /\ rec.stock.count \in Nat
    /\ rec.assets.main_image.t \in {"str", "null"}
    /\ AllStr(rec.assets.set_images)
    /\ rec.assets.view360 = <<>>
    /\ rec.assets.video = <<>>
    /\ \A i \in 1..Len(rec.metadata) :
        rec.metadata[i].key.t = "str" /\ rec.metadata[i].value.t = "str"
    /\ rec.variants = 1

\* C13: format_product_data never raises, whatever the product (the empty
\* mapping, absent or null fields, labels lacking a title), and every field
\* of the record it returns has its documented type; the url is a string,
\* never null.
C13_FormatIsTotal ==
    Returned("format_product_data") =>
        ~ret.rec.raised /\ WellTyped(ret.rec)

\* C14: for every pair of prices, zero and negative ones included, the
\* sale_tag is non-empty if and only if original > current > 0; a non-empty
\* tag carries the integer nearest to (original - current) / original * 100;
\* a discount is only detected when original >= current.
C14_DiscountInvariant ==
    (Returned("format_product_data") /\ ~ret.rec.raised) =>
        LET current == ret.rec.price_data.current
            original == ret.rec.price_data.original
            tag == ret.rec.price_data.sale_tag
            Abs(x) == IF x < 0 THEN 0 - x ELSE x
        IN /\ tag.text # <<>> <=> (original > current /\ current > 0)
           /\ tag.text # <<>> =>
                /\ original >= current
                /\ 2 * Abs((original - current) * 100 - tag.pct * original)
                       <= Abs(original)

\* The quantity of a store when it has the form "<N> <unit>": the number
\* its leading run of digits is the decimal notation of; 0 when it has not.
Quantity(q) ==
    IF /\ q.t = "str"
       /\ \E k \in 1..Len(q.s) :
            /\ \A i \in 1..k : IsDigit(q.s[i])
            /\ k = Len(q.s) \/ q.s[k + 1] = " "
    THEN LET k == CHOOSE k \in 1..Len(q.s) :
                    /\ \A i \in 1..k : IsDigit(q.s[i])
                    /\ k = Len(q.s) \/ q.s[k + 1] = " "
         IN CHOOSE n \in 0..99 : decimal(n) = SubSeq(q.s, 1, k)
    ELSE 0

RECURSIVE SumOfQuantities(_)
SumOfQuantities(stores) ==
    IF stores = <<>> THEN 0
    ELSE Quantity(Head(stores).quantity) + SumOfQuantities(Tail(stores))

ColorOrVolume(product) ==
    SelectSeq(elements(product.filter_labels),
              LAMBDA fl : fl.filter \in {Str(<<"cvet">>), Str(<<"obem">>)})

\* ", " and the title, for each of the labels in turn.
RECURSIVE Suffix(_)
Suffix(labels) ==
    IF labels = <<>> THEN <<>>
    ELSE <<",", " ">> \o Head(labels).title.s \o Suffix(Tail(labels))

\* C16: the title of a record is the product's name followed by ", " and
\* the comma-joined titles, in source order, of exactly the labels whose
\* filter is cvet or obem; with no such label it is the name alone.
C16_TitleComposition ==
    (Returned("format_product_data") /\ ~ret.rec.raised) =>
        LET name == get(call.product.name, Str(<<>>))
        IN ret.rec.title =
            IF ColorOrVolume(call.product) = <<>> THEN name
            ELSE Str(name.s \o Suffix(ColorOrVolume(call.product)))

\* "Vodka" with a cvet label "Red" and an obem label "0.5L".
C16_Witness ==
    /\ Returned("format_product_data")
    /\ call.product.name = Str(<<"Vodka">>)
    /\ Len(elements(call.product.filter_labels)) = 2
    /\ call.product.filter_labels.l[1].filter = Str(<<"cvet">>)
    /\ call.product.filter_labels.l[2].filter = Str(<<"obem">>)
    /\ ~ret.rec.raised
    /\ ret.rec.title = Str(<<"Vodka", ",", " ", "Red", ",", " ", "0.5L">>)

\* The detail requests a callback has yielded.
DetailRequests == {r \in yielded : r.stage = "detail"}

\* C17: a rate-limited detail request is resubmitted once per 429 response,
\* however often it has been resubmitted before; when the server ends up
\* answering with something else than 429, every dispatched entry reaches
\* an outcome (a record, a handled failure or a drop) and the run ends with
\* no request pending; an entry that has only been answered with 429 stays
\* in the pipeline, waiting, in flight or asleep.
C17_ResubmitUntilAnswered ==
    /\ [](\A u \in limited :
            u.path = "product/slug" => HasOutcome(u) \/ InProgress(u))
    /\ [][(~Awake /\ Awake') =>
            \E r \in pending' :
                /\ r \notin pending
                /\ r.dont_filter
                /\ URL(r) = URL(sleeping[1].req)]_vars
    /\ <>[](/\ Quiescent
            /\ \A r \in DetailRequests : HasOutcome(URL(r)))

\* An entry answered with 429 twice that has reached its outcome at the
\* end of the run.
C17_Witness ==
    /\ Quiescent
    /\ n429 = 2
    /\ \E u \in limited :
        /\ limited = {u}
        /\ u.path = "product/slug"
        /\ HasOutcome(u)

\* C18: the request resubmitted after a 429 has the url, the callback and
\* the meta (slug, product_url) of the request that was answered, so the
\* record that ends up in the sink is the one the first answer would have
\* given had it been a product: the record of a request parse_api yielded.
C18_ResubmissionKeepsRequest ==
    /\ [][(~Awake /\ Awake') =>
            \E r \in pending' :
                /\ r \in yielded'
                /\ URL(r) = URL(sleeping[1].req)
                /\ r.stage = sleeping[1].req.stage
                /\ r.cat = sleeping[1].req.cat
                /\ r.slug = sleeping[1].req.slug
                /\ r.product_url = sleeping[1].req.product_url]_vars
    /\ [](\A i \in 1..Len(items) :
            \E r \in DetailRequests : ~r.dont_filter /\ items[i] = detail_item(r))

\* The record of an entry with a product_url whose first answer was a 429.
C18_Witness ==
    \E i \in 1..Len(items) : \E r \in DetailRequests :
        /\ r.dont_filter
        /\ r.product_url # ""
        /\ URL(r) \in limited
        /\ items[i] = detail_item(r)

\* C19: processed_count never decreases; it grows by one, and only when a
\* record has been yielded; whenever no detail handler is running it is the
\* number of records yielded and of items in the sink; a 429 response, its
\* wait, and a payload that is empty or fails to normalize leave it alone.
C19_CounterTracksRecords ==
    /\ [](/\ processed_count = Len(produced)
          /\ processed_count = Len(items))
    /\ [][/\ processed_count' >= processed_count
          /\ processed_count' # processed_count =>
                /\ processed_count' = processed_count + 1
                /\ Len(produced') = Len(produced) + 1
          /\ (sleeping' # sleeping \/ limited' # limited \/ n429' # n429) =>
                processed_count' = processed_count
          /\ (\E h \in handled' \ handled : h.kind # "ok") =>
                processed_count' = processed_count]_vars

\* One record counted after a 429 and a payload that failed to normalize.
C19_Witness ==
    /\ processed_count = 1
    /\ Len(items) = 1
    /\ n429 > 0
    /\ \E h \in handled : h.kind = "bad"

====
